---- MODULE Spec2Model ----
(***************************************************************************)
(* Authentication subsystem of the Express/Prisma backend: the credential  *)
(* store, the local and Google identity resolvers, the session subsystem   *)
(* and the two auth gates (authenticate, optionalAuth).                    *)
(***************************************************************************)
EXTENDS Integers, Sequences, FiniteSets, TLC

\* ---------------------------------------------------------------- bounds
MaxIds == 2        \* user ids the store ever allocates
MaxSids == 1       \* session ids the session store ever allocates
MaxTime == 2       \* clock ticks
MaxTokens == 1     \* bearer tokens outstanding at clients

\* ------------------------------------------------------ program constants
ExpiresIn == 2     \* JWT_EXPIRES_IN, in clock ticks
saltRounds == 12

Procs == {1, 2}

\* ------------------------------------------------------------ value space
Mail(l, d) == [local |-> l, domain |-> d]
NoEmail == Mail("", "")
Emails == {Mail("a", "x.com"), Mail("b", "x.com")}

Name(b, s) == [base |-> b, suffix |-> s]
NoName == Name("", -1)
Usernames == {Name("u1", -1), Name("u2", -1)}

\* a password: its first 72 bytes, and the bytes that follow them
Pw(head, tail) == [head |-> head, tail |-> tail]
Pw1 == Pw("pw1", "")
Pw2 == Pw("pw2", "")

Passwords == {Pw1, Pw2}

\* passwords of more than 72 bytes that differ after the 72nd
LongPasswords == {Pw("p72", "x"), Pw("p72", "y")}
ExtIds == {"g1"}

NoPassword == [alg |-> "null", rounds |-> 0, plain |-> ""]

NoUser == [id |-> 0]

\* a bearer credential: a signed {userId, exp} payload, or something else
Tok(u, e, s) == [userId |-> u, exp |-> e, sig |-> s]
NoToken == Tok(0, 0, "none")
Garbage == Tok(0, 0, "garbage")

NoHeader == [scheme |-> "", cred |-> NoToken]
Hdr(s, c) == [scheme |-> s, cred |-> c]

\* ------------------------------------------------------------------ state
VARIABLES
    users,      \* the User table: a set of records
    nextId,     \* next id the store hands out (ids are never reused)
    sessions,   \* session store: sid -> user id in session.passport.user (0: none)
    nextSid,    \* next session id (session ids are never reused)
    now,        \* wall clock
    issued,     \* bearer tokens issued and still held by clients
    reg,        \* per client: the registration in flight between lookup and create
    res,        \* the response to the latest request
    linked      \* history: the external identities a resolver has returned a user for

vars == <<users, nextId, sessions, nextSid, now, issued, reg, res, linked>>

\* ------------------------------------------------------------ the store
\* prisma select {id, username, ..., provider, createdAt, updatedAt}
SelectView(u) ==
    [id |-> u.id, username |-> u.username, firstName |-> u.firstName,
     lastName |-> u.lastName, email |-> u.email, age |-> u.age, provider |-> u.provider]

\* a strategy that hands the record on as the store returned it
WithoutPassword_Whole(u) == u

\* const { password, ...userWithoutPassword } = user
WithoutPassword(u) ==
    [f \in (DOMAIN u) \ {"password"} |-> u[f]]

findUniqueById(us, id) ==
    IF \E u \in us : u.id = id THEN CHOOSE u \in us : u.id = id ELSE NoUser

findUniqueByEmail(us, email) ==
    IF \E u \in us : u.email = email THEN CHOOSE u \in us : u.email = email ELSE NoUser

\* unique constraints of the User table
EmailTaken(us, email) == \E u \in us : u.email = email

UsernameTaken(us, username) == \E u \in us : u.username = username

\* (provider, providerId) is unique when providerId is set
ProviderIdTaken(us, provider, providerId, selfId) ==
    \E u \in us : u.id # selfId /\ u.provider = provider /\ u.providerId = providerId

\* ------------------------------------------------------- password hasher
\* the key schedule of bcryptjs reads the first 72 bytes of the password
bcryptKey(plain) == plain.head

bcryptHash(plain, rounds) ==
    [alg |-> "bcrypt", rounds |-> rounds, plain |-> bcryptKey(plain)]

bcryptCompare(plain, digest) == digest.alg = "bcrypt" /\ digest.plain = bcryptKey(plain)

\* --------------------------------------------------------- token issuer
generateToken(userId, t) == Tok(userId, t + ExpiresIn, "ok")

\* a verifier that looks at the expiry before the signature
verifyToken_ExpiryFirst(token, t) ==
    IF token.sig \in {"ok", "bad"} /\ t >= token.exp
    THEN [ok |-> FALSE, name |-> "TokenExpiredError", userId |-> 0]
    ELSE IF token.sig # "ok" THEN [ok |-> FALSE, name |-> "JsonWebTokenError", userId |-> 0]
    ELSE [ok |-> TRUE, name |-> "", userId |-> token.userId]

\* a verifier for which a token is still good at the instant of its expiry
verifyToken_Inclusive(token, t) ==
    IF token.sig # "ok" THEN [ok |-> FALSE, name |-> "JsonWebTokenError", userId |-> 0]
    ELSE IF t > token.exp THEN [ok |-> FALSE, name |-> "TokenExpiredError", userId |-> 0]
    ELSE [ok |-> TRUE, name |-> "", userId |-> token.userId]

verifyToken(token, t) ==
    IF token.sig # "ok" THEN [ok |-> FALSE, name |-> "JsonWebTokenError", userId |-> 0]
    ELSE IF t >= token.exp THEN [ok |-> FALSE, name |-> "TokenExpiredError", userId |-> 0]
    ELSE [ok |-> TRUE, name |-> "", userId |-> token.userId]

\* authHeader && authHeader.split(' ')[1]
HeaderToken(hdr) == IF hdr.scheme = "" THEN NoToken ELSE hdr.cred

Truthy(token) == token.sig \notin {"none", "empty"}

\* ------------------------------------------------------------ responses
\* what a client observes (status, error, message, user, token) together with
\* what the request was (op, req), how many times next() was called and the
\* branch of the code that produced the answer
Resp(op, req, status, error, message, user, token, nexts, branch) ==
    [op |-> op, req |-> req, status |-> status, error |-> error, message |-> message,
     user |-> user, token |-> token, nexts |-> nexts, branch |-> branch]

NoResp == Resp("none", [none |-> TRUE], 0, "", "", NoUser, NoToken, 0, "")

\* the client keeps the new token and at most MaxTokens tokens in all
Keep(tokens, t) ==
    {S \in SUBSET (tokens \cup {t}) : t \in S /\ Cardinality(S) <= MaxTokens}

Idle(p) == reg[p].pc = "idle"

\* the previous response has been delivered; responses leave the server one at a time
Quiet == res = NoResp

\* ------------------------------------------------------------- register
\* prisma.user.findFirst({ where: { OR: [{ email }, { username }] } }): the
\* query has no orderBy, so any matching row may be the one returned
RegisterMatches(us, body) ==
    {u \in us : u.email = body.email \/ u.username = body.username}

RegisterCollisionMessage(existingUser, body) ==
    IF existingUser.email = body.email
    THEN "User with this email already exists"
    ELSE "Username is already taken"

\* a registration that stores the password as submitted
RegisterRecord_Plain(id, body) ==
    [id |-> id, username |-> body.username, firstName |-> body.firstName,
     lastName |-> body.lastName, email |-> body.email, age |-> body.age,
     password |-> [alg |-> "plain", rounds |-> 0, plain |-> body.password.head],
     provider |-> "local", providerId |-> "", refreshToken |-> ""]

RegisterRecord(id, body) ==
    [id |-> id, username |-> body.username, firstName |-> body.firstName,
     lastName |-> body.lastName, email |-> body.email, age |-> body.age,
     password |-> bcryptHash(body.password, saltRounds),
     provider |-> "local", providerId |-> "", refreshToken |-> ""]

\* register, up to the await of the existence check
RegisterLookup(p, body, dbDown) ==
    /\ Idle(p)
    /\ Quiet
    /\ IF dbDown
       THEN /\ res' = Resp("register", body, 500, "Internal Server Error",
                            "Failed to register user", NoUser, NoToken, 0, "lookup_error")
            /\ UNCHANGED reg
       ELSE IF RegisterMatches(users, body) # {}
       THEN /\ \E existingUser \in RegisterMatches(users, body) :
                 res' = Resp("register", body, 400, "User Already Exists",
                            RegisterCollisionMessage(existingUser, body),
                            NoUser, NoToken, 0, "exists")
            /\ UNCHANGED reg
       ELSE /\ reg' = [reg EXCEPT ![p] = [pc |-> "checked", body |-> body]]
            /\ UNCHANGED res
    /\ UNCHANGED <<users, nextId, sessions, nextSid, now, issued, linked>>

\* register, from the hash to the response
RegisterCreate(p, dbDown) ==
    /\ reg[p].pc = "checked"
    /\ Quiet
    /\ nextId <= MaxIds
    /\ reg' = [reg EXCEPT ![p] = [pc |-> "idle"]]
    /\ LET body == reg[p].body
           user == RegisterRecord(nextId, body)
           token == generateToken(user.id, now)
       IN IF dbDown \/ EmailTaken(users, body.email) \/ UsernameTaken(users, body.username)
          THEN /\ res' = Resp("register", body, 500, "Internal Server Error",
                               "Failed to register user", NoUser, NoToken, 0,
                               IF dbDown THEN "create_error" ELSE "unique_violation")
               /\ UNCHANGED <<users, nextId, issued>>
          ELSE /\ users' = users \cup {user}
               /\ nextId' = nextId + 1
               /\ issued' \in Keep(issued, token)
               /\ res' = Resp("register", body, 201, "",
                               "User registered successfully", SelectView(user), token, 0, "created")
    /\ UNCHANGED <<sessions, nextSid, now, linked>>

RegisterBodies ==
    [username : Usernames, firstName : {"Ann"}, lastName : {"Lee"}, email : Emails,
     age : {30}, password : Passwords]

\* ------------------------------------------------------------- sessions
Cookies == 0..MaxSids          \* 0: the request carries no session cookie

SessionUserId(cookie) == IF cookie = 0 THEN 0 ELSE sessions[cookie]

\* a session layer that trusts the id in the session when the record is gone
passportSession_Trusting(cookie, dbDown) ==
    LET su == SessionUserId(cookie)
        user == findUniqueById(users, su)
    IN IF su = 0 THEN [err |-> FALSE, user |-> NoUser, sessions |-> sessions]
       ELSE IF dbDown THEN [err |-> TRUE, user |-> NoUser, sessions |-> sessions]
       ELSE IF user = NoUser
            THEN [err |-> FALSE,
                  user |-> [id |-> su, username |-> NoName, firstName |-> "",
                            lastName |-> "", email |-> NoEmail, age |-> 0,
                            provider |-> "local"],
                  sessions |-> sessions]
       ELSE [err |-> FALSE, user |-> SelectView(user), sessions |-> sessions]

\* passport.session(): deserializeUser of session.passport.user. A user that is
\* gone is removed from the session; a store error is passed to the error handler
passportSession(cookie, dbDown) ==
    LET su == SessionUserId(cookie)
        user == findUniqueById(users, su)
    IN IF su = 0 THEN [err |-> FALSE, user |-> NoUser, sessions |-> sessions]
       ELSE IF dbDown THEN [err |-> TRUE, user |-> NoUser, sessions |-> sessions]
       ELSE IF user = NoUser
            THEN [err |-> FALSE, user |-> NoUser,
                  sessions |-> [sessions EXCEPT ![cookie] = 0]]
       ELSE [err |-> FALSE, user |-> SelectView(user), sessions |-> sessions]

\* req.logIn: the session is regenerated under a new id and holds user.id
logIn(cookie, userId) ==
    [s \in 1..MaxSids |-> IF s = nextSid THEN userId
                          ELSE IF s = cookie THEN 0
                          ELSE sessions[s]]

\* a session store whose destroy leaves the session in place
destroySession_Noop(ss, cookie) == ss

\* req.logout + req.session.destroy
destroySession(ss, cookie) == [s \in 1..MaxSids |-> IF s = cookie THEN 0 ELSE ss[s]]

\* an external identity and the id of the record a resolver returned for it
Link(provider, profile, id) ==
    [provider |-> provider, providerId |-> profile.id,
     withEmail |-> profile.email # NoEmail, id |-> id]

\* the app-level error handler (err.status || 500)
ErrorHandler(op, req) ==
    Resp(op, req, 500, "Internal Server Error", "Something went wrong!",
         NoUser, NoToken, 0, "error_handler")

\* ---------------------------------------------------------------- login
\* a strategy that tells an unknown email from a wrong password
LocalVerify_Enumerating(email, password, dbDown) ==
    LET user == findUniqueByEmail(users, email)
    IN IF dbDown
       THEN [err |-> TRUE, user |-> NoUser, message |-> "", compared |-> FALSE,
             branch |-> "error"]
       ELSE IF user = NoUser
       THEN [err |-> FALSE, user |-> NoUser, message |-> "User not found",
             compared |-> FALSE, branch |-> "no_user"]
       ELSE IF user.password = NoPassword
       THEN [err |-> FALSE, user |-> NoUser, message |-> "Please use OAuth to login",
             compared |-> FALSE, branch |-> "no_password"]
       ELSE IF ~bcryptCompare(password, user.password)
       THEN [err |-> FALSE, user |-> NoUser, message |-> "Invalid email or password",
             compared |-> TRUE, branch |-> "bad_password"]
       ELSE [err |-> FALSE, user |-> WithoutPassword(user), message |-> "",
             compared |-> TRUE, branch |-> "ok"]

\* a strategy that compares the password before it looks for a missing hash
LocalVerify_CompareFirst(email, password, dbDown) ==
    LET user == findUniqueByEmail(users, email)
    IN IF dbDown
       THEN [err |-> TRUE, user |-> NoUser, message |-> "", compared |-> FALSE,
             branch |-> "error"]
       ELSE IF user = NoUser
       THEN [err |-> FALSE, user |-> NoUser, message |-> "Invalid email or password",
             compared |-> FALSE, branch |-> "no_user"]
       ELSE IF ~bcryptCompare(password, user.password)
       THEN [err |-> FALSE, user |-> NoUser, message |-> "Invalid email or password",
             compared |-> TRUE,
             branch |-> IF user.password = NoPassword THEN "no_password" ELSE "bad_password"]
       ELSE [err |-> FALSE, user |-> WithoutPassword(user), message |-> "",
             compared |-> TRUE, branch |-> "ok"]

\* LocalStrategy verify callback: done(err, user, info)
LocalVerify(email, password, dbDown) ==
    LET user == findUniqueByEmail(users, email)
    IN IF dbDown
       THEN [err |-> TRUE, user |-> NoUser, message |-> "", compared |-> FALSE,
             branch |-> "error"]
       ELSE IF user = NoUser
       THEN [err |-> FALSE, user |-> NoUser, message |-> "Invalid email or password",
             compared |-> FALSE, branch |-> "no_user"]
       ELSE IF user.password = NoPassword
       THEN [err |-> FALSE, user |-> NoUser, message |-> "Please use OAuth to login",
             compared |-> FALSE, branch |-> "no_password"]
       ELSE IF ~bcryptCompare(password, user.password)
       THEN [err |-> FALSE, user |-> NoUser, message |-> "Invalid email or password",
             compared |-> TRUE, branch |-> "bad_password"]
       ELSE [err |-> FALSE, user |-> WithoutPassword(user), message |-> "",
             compared |-> TRUE, branch |-> "ok"]

\* the login handler's response, given the strategy's verdict
LoginResponse(req, v, token) ==
    IF v.err
    THEN Resp("login", req, 500, "Internal Server Error", "Login failed",
              NoUser, NoToken, 0, v.branch)
    ELSE IF v.user = NoUser
    THEN Resp("login", req, 401, "Authentication Failed",
              IF v.message # "" THEN v.message ELSE "Invalid credentials",
              NoUser, NoToken, 0, v.branch)
    ELSE Resp("login", req, 200, "", "Login successful", v.user, token, 0, v.branch)

LoginReq(email, password, cookie, dbDown, compared) ==
    [email |-> email, password |-> password, cookie |-> cookie, dbDown |-> dbDown,
     compared |-> compared]

\* storeFail: the session store fails in req.logIn
Login(email, password, cookie, dbDown, storeFail) ==
    LET ps == passportSession(cookie, dbDown)
        v == LocalVerify(email, password, dbDown)
        token == generateToken(v.user.id, now)
        req == LoginReq(email, password, cookie, dbDown, v.compared)
    IN /\ Quiet
       /\ IF ps.err
          THEN /\ res' = ErrorHandler("login", req)
               /\ UNCHANGED <<sessions, nextSid, issued>>
          ELSE IF ~v.err /\ v.user # NoUser /\ storeFail
          THEN /\ res' = Resp("login", req, 500, "Internal Server Error",
                              "Failed to create session", NoUser, NoToken, 0,
                              "session_error")
               /\ sessions' = ps.sessions
               /\ UNCHANGED <<nextSid, issued>>
          ELSE IF ~v.err /\ v.user # NoUser
          THEN /\ nextSid <= MaxSids
               /\ res' = LoginResponse(req, v, token)
               /\ sessions' = logIn(cookie, v.user.id)
               /\ nextSid' = nextSid + 1
               /\ issued' \in Keep(issued, token)
          ELSE /\ res' = LoginResponse(req, v, token)
               /\ sessions' = ps.sessions
               /\ UNCHANGED <<nextSid, issued>>
       /\ UNCHANGED <<users, nextId, now, reg, linked>>

\* --------------------------------------------------------------- logout
\* fail: the step of logout at which the session store fails ("none": it does not).
\* A failed req.logout may or may not have removed the user from the session; when
\* session.destroy fails, req.logout has already emptied the session
Logout(cookie, dbDown, fail) ==
    LET ps == passportSession(cookie, dbDown)
        req == [cookie |-> cookie, dbDown |-> dbDown, fail |-> fail]
    IN /\ Quiet
       /\ IF ps.err
          THEN /\ res' = ErrorHandler("logout", req)
               /\ UNCHANGED sessions
          ELSE IF fail = "logout"
          THEN /\ sessions' \in {ps.sessions, destroySession(ps.sessions, cookie)}
               /\ res' = Resp("logout", req, 500, "Internal Server Error",
                              "Failed to logout", NoUser, NoToken, 0, "logout_error")
          ELSE IF fail = "destroy"
          THEN /\ sessions' = destroySession(ps.sessions, cookie)
               /\ res' = Resp("logout", req, 500, "Internal Server Error",
                              "Failed to destroy session", NoUser, NoToken, 0,
                              "destroy_error")
          ELSE /\ sessions' = destroySession(ps.sessions, cookie)
               /\ res' = Resp("logout", req, 200, "", "Logout successful",
                              NoUser, NoToken, 0, "ok")
       /\ UNCHANGED <<users, nextId, nextSid, now, issued, reg, linked>>

\* --------------------------------------------------------- Google OAuth
\* findFirst({ where: { OR: [{ email }, { provider: 'google', providerId }] } })
GoogleMatches(us, profile) ==
    {u \in us : u.email = profile.email
                  \/ (u.provider = "google" /\ u.providerId = profile.id)}

GoogleUpdate(user, profile, refreshToken) ==
    [user EXCEPT !.provider = "google", !.providerId = profile.id,
                 !.refreshToken = refreshToken]

\* username: profile.emails[0].value.split('@')[0] + '_' + Date.now()
GoogleRecord(id, profile, refreshToken) ==
    [id |-> id, username |-> Name(profile.email.local, now),
     firstName |-> IF profile.givenName # "" THEN profile.givenName ELSE "Unknown",
     lastName |-> IF profile.familyName # "" THEN profile.familyName ELSE "User",
     email |-> profile.email, age |-> 18,
     password |-> NoPassword, provider |-> "google", providerId |-> profile.id,
     refreshToken |-> refreshToken]

\* the /auth/google/callback handler after a verdict `user` of the strategy
\* (ss: the session store as passport.session() left it; storeFail: req.logIn fails)
GoogleSuccess(req, cookie, ss, user, storeFail) ==
    LET token == generateToken(user.id, now)
    IN IF storeFail
       THEN /\ res' = ErrorHandler("google", req)
            /\ sessions' = ss
            /\ UNCHANGED <<nextSid, issued>>
       ELSE /\ nextSid <= MaxSids
            /\ sessions' = logIn(cookie, user.id)
            /\ nextSid' = nextSid + 1
            /\ issued' \in Keep(issued, token)
            /\ res' = Resp("google", req, 200, "", "Google OAuth login successful",
                           WithoutPassword(user), token, 0, "ok")

\* GET /auth/google/callback: the strategy's verify callback, req.logIn, the handler
GoogleCallback(profile, refreshToken, cookie, dbDown, storeFail) ==
    LET ps == passportSession(cookie, dbDown)
        req == [profile |-> profile, dbDown |-> dbDown, storeFail |-> storeFail]
        created == GoogleRecord(nextId, profile, refreshToken)
    IN /\ Quiet
       /\ IF ps.err \/ dbDown
          THEN /\ res' = ErrorHandler("google", req)
               /\ UNCHANGED <<users, nextId, sessions, nextSid, issued, linked>>
          ELSE IF GoogleMatches(users, profile) # {}
          THEN \E user \in GoogleMatches(users, profile) :
                  IF ProviderIdTaken(users, "google", profile.id, user.id)
                  THEN /\ res' = ErrorHandler("google", req)
                       /\ sessions' = ps.sessions
                       /\ UNCHANGED <<users, nextId, nextSid, issued, linked>>
                  ELSE /\ users' = (users \ {user})
                                       \cup {GoogleUpdate(user, profile, refreshToken)}
                       /\ GoogleSuccess(req, cookie, ps.sessions,
                                        GoogleUpdate(user, profile, refreshToken), storeFail)
                       /\ linked' = linked \cup {Link("google", profile, user.id)}
                       /\ UNCHANGED nextId
          ELSE IF UsernameTaken(users, created.username)
          THEN /\ res' = ErrorHandler("google", req)
               /\ sessions' = ps.sessions
               /\ UNCHANGED <<users, nextId, nextSid, issued, linked>>
          ELSE /\ nextId <= MaxIds
               /\ users' = users \cup {created}
               /\ nextId' = nextId + 1
               /\ GoogleSuccess(req, cookie, ps.sessions, created, storeFail)
               /\ linked' = linked \cup {Link("google", profile, created.id)}
       /\ UNCHANGED <<now, reg>>

GoogleProfiles ==
    {[id |-> i, email |-> e, givenName |-> n, familyName |-> n] :
        i \in ExtIds, e \in Emails, n \in {"", "Gia"}}

\* --------------------------------------------------------- GitHub OAuth
\* a GitHub profile: emails may be absent (NoEmail), displayName may be absent
\* findFirst({ where: { OR: [{ email: profile.emails?.[0]?.value },
\*                           { provider: 'github', providerId }] } }): a condition
\* whose value is undefined selects nothing
GitHubMatches(us, profile) ==
    {u \in us : (profile.email # NoEmail /\ u.email = profile.email)
                  \/ (u.provider = "github" /\ u.providerId = profile.id)}

GitHubUpdate(user, profile, refreshToken) ==
    [user EXCEPT !.provider = "github", !.providerId = profile.id,
                 !.refreshToken = refreshToken]

\* profile.emails?.[0]?.value || `${profile.username}@github.local`
GitHubEmail(profile) ==
    IF profile.email # NoEmail THEN profile.email ELSE Mail(profile.username, "github.local")

\* profile.username || displayName with '_' for blanks, lower case
\*                  || 'github_user_' + Date.now()
GitHubUsername(profile) ==
    IF profile.username # "" THEN Name(profile.username, -1)
    ELSE IF profile.displayName.first # "" THEN Name(profile.displayName.slug, -1)
    ELSE Name("github_user", now)

GitHubRecord(id, profile, refreshToken) ==
    [id |-> id, username |-> GitHubUsername(profile),
     firstName |-> IF profile.displayName.first # "" THEN profile.displayName.first
                   ELSE IF profile.username # "" THEN profile.username ELSE "Unknown",
     lastName |-> IF profile.displayName.rest # "" THEN profile.displayName.rest ELSE "User",
     email |-> GitHubEmail(profile), age |-> 18,
     password |-> NoPassword, provider |-> "github", providerId |-> profile.id,
     refreshToken |-> refreshToken]

\* the /auth/github/callback handler after a verdict `user` of the strategy
\* (ss: the session store as passport.session() left it; storeFail: req.logIn fails)
GitHubSuccess(req, cookie, ss, user, storeFail) ==
    LET token == generateToken(user.id, now)
    IN IF storeFail
       THEN /\ res' = ErrorHandler("github", req)
            /\ sessions' = ss
            /\ UNCHANGED <<nextSid, issued>>
       ELSE /\ nextSid <= MaxSids
            /\ sessions' = logIn(cookie, user.id)
            /\ nextSid' = nextSid + 1
            /\ issued' \in Keep(issued, token)
            /\ res' = Resp("github", req, 200, "", "GitHub OAuth login successful",
                           WithoutPassword(user), token, 0, "ok")

\* GET /auth/github/callback: the strategy's verify callback, req.logIn, the handler
GitHubCallback(profile, refreshToken, cookie, dbDown, storeFail) ==
    LET ps == passportSession(cookie, dbDown)
        req == [profile |-> profile, dbDown |-> dbDown, storeFail |-> storeFail]
        created == GitHubRecord(nextId, profile, refreshToken)
    IN /\ Quiet
       /\ IF ps.err \/ dbDown
          THEN /\ res' = ErrorHandler("github", req)
               /\ UNCHANGED <<users, nextId, sessions, nextSid, issued, linked>>
          ELSE IF GitHubMatches(users, profile) # {}
          THEN \E user \in GitHubMatches(users, profile) :
                  IF ProviderIdTaken(users, "github", profile.id, user.id)
                  THEN /\ res' = ErrorHandler("github", req)
                       /\ sessions' = ps.sessions
                       /\ UNCHANGED <<users, nextId, nextSid, issued, linked>>
                  ELSE /\ users' = (users \ {user})
                                       \cup {GitHubUpdate(user, profile, refreshToken)}
                       /\ GitHubSuccess(req, cookie, ps.sessions,
                                        GitHubUpdate(user, profile, refreshToken), storeFail)
                       /\ linked' = linked \cup {Link("github", profile, user.id)}
                       /\ UNCHANGED nextId
          ELSE IF UsernameTaken(users, created.username) \/ EmailTaken(users, created.email)
          THEN /\ res' = ErrorHandler("github", req)
               /\ sessions' = ps.sessions
               /\ UNCHANGED <<users, nextId, nextSid, issued, linked>>
          ELSE /\ nextId <= MaxIds
               /\ users' = users \cup {created}
               /\ nextId' = nextId + 1
               /\ GitHubSuccess(req, cookie, ps.sessions, created, storeFail)
               /\ linked' = linked \cup {Link("github", profile, created.id)}
       /\ UNCHANGED <<now, reg>>

NoDisplayName == [first |-> "", rest |-> "", slug |-> ""]

GitHubProfiles ==
    {[id |-> "h1", username |-> "u1", email |-> NoEmail, displayName |-> NoDisplayName],
     [id |-> "h1", username |-> "u1", email |-> Mail("a", "x.com"),
      displayName |-> [first |-> "Octo", rest |-> "Cat", slug |-> "octo_cat"]]}

\* ------------------------------------------------------------- auth gate
\* what a gate does with a request: the response it sends (status 0: none),
\* how often it calls next() and the value of req.user it leaves behind
Gate(status, error, message, nexts, user, branch) ==
    [status |-> status, error |-> error, message |-> message, nexts |-> nexts,
     user |-> user, branch |-> branch]

\* reqUser is req.user as passport.session() left it
\* a token gate that also turns away the token of a user without a live session
authenticateJWT_SessionBound(hdr, reqUser, dbDown) ==
    LET token == HeaderToken(hdr)
        decoded == verifyToken(token, now)
        user == findUniqueById(users, decoded.userId)
    IN IF ~Truthy(token)
       THEN Gate(401, "Unauthorized", "Access token is required", 0, reqUser, "no_token")
       ELSE IF ~decoded.ok /\ decoded.name = "JsonWebTokenError"
       THEN Gate(401, "Unauthorized", "Invalid token", 0, reqUser, "invalid")
       ELSE IF ~decoded.ok /\ decoded.name = "TokenExpiredError"
       THEN Gate(401, "Unauthorized", "Token expired", 0, reqUser, "expired")
       ELSE IF dbDown
       THEN Gate(500, "Internal Server Error", "Authentication failed", 0, reqUser, "error")
       ELSE IF user = NoUser
       THEN Gate(401, "Unauthorized", "User not found", 0, reqUser, "user_not_found")
       ELSE IF \A sid \in 1..MaxSids : sessions[sid] # user.id
       THEN Gate(401, "Unauthorized", "Invalid token", 0, reqUser, "revoked")
       ELSE Gate(0, "", "", 1, SelectView(user), "token")

\* a token gate that attaches what the token says, without reading the record
authenticateJWT_Payload(hdr, reqUser, dbDown) ==
    LET token == HeaderToken(hdr)
        decoded == verifyToken(token, now)
    IN IF ~Truthy(token)
       THEN Gate(401, "Unauthorized", "Access token is required", 0, reqUser, "no_token")
       ELSE IF ~decoded.ok /\ decoded.name = "JsonWebTokenError"
       THEN Gate(401, "Unauthorized", "Invalid token", 0, reqUser, "invalid")
       ELSE IF ~decoded.ok /\ decoded.name = "TokenExpiredError"
       THEN Gate(401, "Unauthorized", "Token expired", 0, reqUser, "expired")
       ELSE Gate(0, "", "", 1, [id |-> decoded.userId], "token")

authenticateJWT(hdr, reqUser, dbDown) ==
    LET token == HeaderToken(hdr)
        decoded == verifyToken(token, now)
        user == findUniqueById(users, decoded.userId)
    IN IF ~Truthy(token)
       THEN Gate(401, "Unauthorized", "Access token is required", 0, reqUser, "no_token")
       ELSE IF ~decoded.ok /\ decoded.name = "JsonWebTokenError"
       THEN Gate(401, "Unauthorized", "Invalid token", 0, reqUser, "invalid")
       ELSE IF ~decoded.ok /\ decoded.name = "TokenExpiredError"
       THEN Gate(401, "Unauthorized", "Token expired", 0, reqUser, "expired")
       ELSE IF dbDown
       THEN Gate(500, "Internal Server Error", "Authentication failed", 0, reqUser, "error")
       ELSE IF user = NoUser
       THEN Gate(401, "Unauthorized", "User not found", 0, reqUser, "user_not_found")
       ELSE Gate(0, "", "", 1, SelectView(user), "token")

\* a session gate that lets every request through
authenticateSession_Open(reqUser) ==
    Gate(0, "", "", 1, reqUser, "session")

\* req.isAuthenticated() is true exactly when req.user is set
authenticateSession(reqUser) ==
    IF reqUser # NoUser
    THEN Gate(0, "", "", 1, reqUser, "session")
    ELSE Gate(401, "Unauthorized", "Please log in to access this resource", 0, reqUser,
              "no_session")

\* a gate that prefers an authenticated session to the bearer token
authenticate_SessionFirst(hdr, reqUser, dbDown) ==
    IF reqUser # NoUser
    THEN authenticateSession(reqUser)
    ELSE IF Truthy(HeaderToken(hdr))
    THEN authenticateJWT(hdr, reqUser, dbDown)
    ELSE authenticateSession(reqUser)

authenticate(hdr, reqUser, dbDown) ==
    IF Truthy(HeaderToken(hdr))
    THEN authenticateJWT(hdr, reqUser, dbDown)
    ELSE authenticateSession(reqUser)

\* an optional gate that answers a failed token like the mandatory one
optionalAuth_Rejecting(hdr, reqUser, dbDown) ==
    LET token == HeaderToken(hdr)
        decoded == verifyToken(token, now)
        user == findUniqueById(users, decoded.userId)
    IN IF Truthy(token)
       THEN IF ~decoded.ok \/ dbDown
            THEN Gate(401, "Unauthorized", "Invalid token", 0, reqUser, "swallowed")
            ELSE IF user # NoUser
            THEN Gate(0, "", "", 1, SelectView(user), "token")
            ELSE Gate(0, "", "", 1, reqUser, "user_not_found")
       ELSE IF reqUser # NoUser
       THEN Gate(0, "", "", 1, reqUser, "session")
       ELSE Gate(0, "", "", 1, reqUser, "anonymous")

optionalAuth(hdr, reqUser, dbDown) ==
    LET token == HeaderToken(hdr)
        decoded == verifyToken(token, now)
        user == findUniqueById(users, decoded.userId)
    IN IF Truthy(token)
       THEN IF ~decoded.ok \/ dbDown
            THEN Gate(0, "", "", 1, reqUser, "swallowed")
            ELSE IF user # NoUser
            THEN Gate(0, "", "", 1, SelectView(user), "token")
            ELSE Gate(0, "", "", 1, reqUser, "user_not_found")
       ELSE IF reqUser # NoUser
       THEN Gate(0, "", "", 1, reqUser, "session")
       ELSE Gate(0, "", "", 1, reqUser, "anonymous")

\* the request as the gate sees it: the header, req.user on entry, the store's health
GateReq(hdr, cookie, dbDown, reqUser) ==
    [hdr |-> hdr, dbDown |-> dbDown, sessionUser |-> reqUser, at |-> now]

GateResp(op, req, g) ==
    Resp(op, req, g.status, g.error, g.message, g.user, NoToken, g.nexts, g.branch)

\* a request to a route behind authenticate, up to the route's handler
Authenticate(hdr, cookie, dbDown) ==
    LET ps == passportSession(cookie, dbDown)
        req == GateReq(hdr, cookie, dbDown, ps.user)
    IN /\ Quiet
       /\ res' = IF ps.err THEN ErrorHandler("authenticate", req)
                 ELSE GateResp("authenticate", req, authenticate(hdr, ps.user, dbDown))
       /\ sessions' = ps.sessions
       /\ UNCHANGED <<users, nextId, nextSid, now, issued, reg, linked>>

\* a request to a route behind optionalAuth, up to the route's handler
OptionalAuth(hdr, cookie, dbDown) ==
    LET ps == passportSession(cookie, dbDown)
        req == GateReq(hdr, cookie, dbDown, ps.user)
    IN /\ Quiet
       /\ res' = IF ps.err THEN ErrorHandler("optionalAuth", req)
                 ELSE GateResp("optionalAuth", req, optionalAuth(hdr, ps.user, dbDown))
       /\ sessions' = ps.sessions
       /\ UNCHANGED <<users, nextId, nextSid, now, issued, reg, linked>>

\* -------------------------------------------------------- delete account
\* DELETE /auth/delete-account: authenticate, then deleteAccount
DeleteAccount(hdr, cookie, dbDown) ==
    LET ps == passportSession(cookie, dbDown)
        req == GateReq(hdr, cookie, dbDown, ps.user)
        g == authenticate(hdr, ps.user, dbDown)
    IN /\ Quiet
       /\ IF ps.err
          THEN /\ res' = ErrorHandler("deleteAccount", req)
               /\ UNCHANGED <<users, sessions>>
          ELSE IF g.nexts = 0
          THEN /\ res' = GateResp("deleteAccount", req, g)
               /\ sessions' = ps.sessions
               /\ UNCHANGED users
          ELSE /\ users' = {u \in users : u.id # g.user.id}
               /\ sessions' = destroySession(ps.sessions, cookie)
               /\ res' = Resp("deleteAccount", req, 200, "", "Account deleted successfully",
                              NoUser, NoToken, 1, g.branch)
       /\ UNCHANGED <<nextId, nextSid, now, issued, reg, linked>>

\* -------------------------------------------------------- update profile
\* a field the body does not carry is NoName, NoEmail, "" or 0
UpdateConflicts(us, userId, body) ==
    {u \in us : /\ u.id # userId
                 /\ \/ (body.username # NoName /\ u.username = body.username)
                    \/ (body.email # NoEmail /\ u.email = body.email)}

UpdateConflictMessage(existingUser, body) ==
    IF existingUser.username = body.username
    THEN "Username is already taken"
    ELSE "Email is already in use"

\* an update that writes the whole record anew, the provider with its default
UpdateProfileRecord_ResetProvider(user, body) ==
    [user EXCEPT !.username = IF body.username # NoName THEN body.username ELSE @,
                 !.firstName = IF body.firstName # "" THEN body.firstName ELSE @,
                 !.lastName = IF body.lastName # "" THEN body.lastName ELSE @,
                 !.email = IF body.email # NoEmail THEN body.email ELSE @,
                 !.age = IF body.age # 0 THEN body.age ELSE @,
                 !.provider = "local"]

\* an update that writes all five fields, absent ones as empty
UpdateProfileRecord_Overwrite(user, body) ==
    [user EXCEPT !.username = body.username, !.firstName = body.firstName,
                 !.lastName = body.lastName, !.email = body.email, !.age = body.age]

\* updateData: only the fields the body carries
UpdateProfileRecord(user, body) ==
    [user EXCEPT !.username = IF body.username # NoName THEN body.username ELSE @,
                 !.firstName = IF body.firstName # "" THEN body.firstName ELSE @,
                 !.lastName = IF body.lastName # "" THEN body.lastName ELSE @,
                 !.email = IF body.email # NoEmail THEN body.email ELSE @,
                 !.age = IF body.age # 0 THEN body.age ELSE @]

\* PUT /auth/profile: authenticate, then updateProfile
UpdateProfile(hdr, cookie, body, dbDown) ==
    LET ps == passportSession(cookie, dbDown)
        req == [gate |-> GateReq(hdr, cookie, dbDown, ps.user), body |-> body]
        g == authenticate(hdr, ps.user, dbDown)
        user == findUniqueById(users, g.user.id)
        conflicts == UpdateConflicts(users, g.user.id, body)
    IN /\ Quiet
       /\ IF ps.err
          THEN /\ res' = ErrorHandler("updateProfile", req)
               /\ UNCHANGED <<users, sessions>>
          ELSE /\ sessions' = ps.sessions
               /\ IF g.nexts = 0
                  THEN /\ res' = GateResp("updateProfile", req, g)
                       /\ UNCHANGED users
                  ELSE IF conflicts # {}
                  THEN /\ \E existingUser \in conflicts :
                            res' = Resp("updateProfile", req, 400, "Conflict",
                                        UpdateConflictMessage(existingUser, body),
                                        NoUser, NoToken, 1, "conflict")
                       /\ UNCHANGED users
                  ELSE /\ users' = (users \ {user}) \cup {UpdateProfileRecord(user, body)}
                       /\ res' = Resp("updateProfile", req, 200, "",
                                      "Profile updated successfully",
                                      SelectView(UpdateProfileRecord(user, body)),
                                      NoToken, 1, "updated")
       /\ UNCHANGED <<nextId, nextSid, now, issued, reg, linked>>

\* ------------------------------------------------------- change password
ChangePasswordRecord(user, newPassword) ==
    [user EXCEPT !.password = bcryptHash(newPassword, saltRounds)]

\* PUT /auth/change-password: authenticate, then changePassword
ChangePassword(hdr, cookie, currentPassword, newPassword, dbDown) ==
    LET ps == passportSession(cookie, dbDown)
        req == [gate |-> GateReq(hdr, cookie, dbDown, ps.user),
                currentPassword |-> currentPassword, newPassword |-> newPassword]
        g == authenticate(hdr, ps.user, dbDown)
        user == findUniqueById(users, g.user.id)
    IN /\ Quiet
       /\ IF ps.err
          THEN /\ res' = ErrorHandler("changePassword", req)
               /\ UNCHANGED <<users, sessions>>
          ELSE /\ sessions' = ps.sessions
               /\ IF g.nexts = 0
                  THEN /\ res' = GateResp("changePassword", req, g)
                       /\ UNCHANGED users
                  ELSE IF user = NoUser \/ user.password = NoPassword
                  THEN /\ res' = Resp("changePassword", req, 400, "Bad Request",
                                      "Cannot change password for OAuth users",
                                      NoUser, NoToken, 1, "no_password")
                       /\ UNCHANGED users
                  ELSE IF ~bcryptCompare(currentPassword, user.password)
                  THEN /\ res' = Resp("changePassword", req, 400, "Authentication Failed",
                                      "Current password is incorrect",
                                      NoUser, NoToken, 1, "bad_password")
                       /\ UNCHANGED users
                  ELSE /\ users' = (users \ {user})
                                       \cup {ChangePasswordRecord(user, newPassword)}
                       /\ res' = Resp("changePassword", req, 200, "",
                                      "Password changed successfully",
                                      NoUser, NoToken, 1, "changed")
       /\ UNCHANGED <<nextId, nextSid, now, issued, reg, linked>>

\* ---------------------------------------------------------- user views
\* GET /auth/profile: authenticate, then getProfile
\* (fail: the store fails in the handler's query)
GetProfile(hdr, cookie, dbDown, fail) ==
    LET ps == passportSession(cookie, dbDown)
        req == [gate |-> GateReq(hdr, cookie, dbDown, ps.user), fail |-> fail]
        g == authenticate(hdr, ps.user, dbDown)
        user == findUniqueById(users, g.user.id)
    IN /\ Quiet
       /\ IF ps.err
          THEN /\ res' = ErrorHandler("getProfile", req)
               /\ UNCHANGED sessions
          ELSE /\ sessions' = ps.sessions
               /\ res' = IF g.nexts = 0 THEN GateResp("getProfile", req, g)
                         ELSE IF fail
                         THEN Resp("getProfile", req, 500, "Internal Server Error",
                                   "Failed to retrieve profile", NoUser, NoToken, 1, "error")
                         ELSE IF user = NoUser
                         THEN Resp("getProfile", req, 404, "User Not Found",
                                   "User profile not found", NoUser, NoToken, 1, "not_found")
                         ELSE Resp("getProfile", req, 200, "",
                                   "Profile retrieved successfully", SelectView(user),
                                   NoToken, 1, "ok")
       /\ UNCHANGED <<users, nextId, nextSid, now, issued, reg, linked>>

\* the place of a record in orderBy: { createdAt: 'desc' }: ids are handed out
\* in the order of creation
Rank(us, u) == Cardinality({v \in us : v.id > u.id}) + 1

\* prisma.user.findMany({ skip, take, select, orderBy })
findManyUsers(us, skip, take) ==
    LET n == Cardinality(us)
        all == [i \in 1..n |-> SelectView(CHOOSE u \in us : Rank(us, u) = i)]
        last == IF skip + take < n THEN skip + take ELSE n
    IN IF skip >= n THEN << >> ELSE SubSeq(all, skip + 1, last)

\* Math.ceil(total / limit)
Pages(total, limit) == (total + limit - 1) \div limit

\* GET /api/users: authenticate, validatePagination, then getAllUsers
GetAllUsers(hdr, cookie, page, limit, dbDown, fail) ==
    LET ps == passportSession(cookie, dbDown)
        req == [gate |-> GateReq(hdr, cookie, dbDown, ps.user), page |-> page,
                limit |-> limit, fail |-> fail]
        g == authenticate(hdr, ps.user, dbDown)
        skip == (page - 1) * limit
        total == Cardinality(users)
    IN /\ Quiet
       /\ IF ps.err
          THEN /\ res' = ErrorHandler("getAllUsers", req)
               /\ UNCHANGED sessions
          ELSE /\ sessions' = ps.sessions
               /\ res' = IF g.nexts = 0 THEN GateResp("getAllUsers", req, g)
                         ELSE IF fail
                         THEN Resp("getAllUsers", req, 500, "Internal Server Error",
                                   "Failed to retrieve users", NoUser, NoToken, 1, "error")
                         ELSE Resp("getAllUsers", req, 200, "",
                                   "Users retrieved successfully",
                                   [data |-> findManyUsers(users, skip, limit),
                                    pagination |-> [page |-> page, limit |-> limit,
                                                    total |-> total,
                                                    pages |-> Pages(total, limit)]],
                                   NoToken, 1, "ok")
       /\ UNCHANGED <<users, nextId, nextSid, now, issued, reg, linked>>

\* GET /api/users/:id: authenticate, validateId, then getUserById
GetUserById(hdr, cookie, id, dbDown, fail) ==
    LET ps == passportSession(cookie, dbDown)
        req == [gate |-> GateReq(hdr, cookie, dbDown, ps.user), id |-> id, fail |-> fail]
        g == authenticate(hdr, ps.user, dbDown)
        user == findUniqueById(users, id)
    IN /\ Quiet
       /\ IF ps.err
          THEN /\ res' = ErrorHandler("getUserById", req)
               /\ UNCHANGED sessions
          ELSE /\ sessions' = ps.sessions
               /\ res' = IF g.nexts = 0 THEN GateResp("getUserById", req, g)
                         ELSE IF fail
                         THEN Resp("getUserById", req, 500, "Internal Server Error",
                                   "Failed to retrieve user", NoUser, NoToken, 1, "error")
                         ELSE IF user = NoUser
                         THEN Resp("getUserById", req, 404, "Not Found", "User not found",
                                   NoUser, NoToken, 1, "not_found")
                         ELSE Resp("getUserById", req, 200, "",
                                   "User retrieved successfully", SelectView(user),
                                   NoToken, 1, "ok")
       /\ UNCHANGED <<users, nextId, nextSid, now, issued, reg, linked>>

\* ------------------------------------------------------------ /api router
\* router.<method>(path, ...chain): a path is a resource and, for '/:id', an id
Route(method, resource, hasId, chain) ==
    [method |-> method, resource |-> resource, hasId |-> hasId, chain |-> chain]

UserRoutes ==
    << Route("GET", "users", FALSE, <<"authenticate", "validatePagination", "getAllUsers">>),
       Route("GET", "users", TRUE, <<"authenticate", "validateId", "getUserById">>) >>

\* category routes that leave DELETE open
CategoryRoutes_Open ==
    << Route("GET", "categories", FALSE, <<"validatePagination", "getAllCategories">>),
       Route("GET", "categories", TRUE, <<"validateId", "getCategoryById">>),
       Route("POST", "categories", FALSE,
             <<"authenticate", "validateCategory", "createCategory">>),
       Route("PUT", "categories", TRUE,
             <<"authenticate", "validateId", "validateUpdateCategory", "updateCategory">>),
       Route("DELETE", "categories", TRUE, <<"validateId", "deleteCategory">>) >>

CategoryRoutes ==
    << Route("GET", "categories", FALSE, <<"validatePagination", "getAllCategories">>),
       Route("GET", "categories", TRUE, <<"validateId", "getCategoryById">>),
       Route("POST", "categories", FALSE,
             <<"authenticate", "validateCategory", "createCategory">>),
       Route("PUT", "categories", TRUE,
             <<"authenticate", "validateId", "validateUpdateCategory", "updateCategory">>),
       Route("DELETE", "categories", TRUE,
             <<"authenticate", "validateId", "deleteCategory">>) >>

PostRoutes ==
    << Route("GET", "posts", FALSE, <<"validatePagination", "getAllPosts">>),
       Route("GET", "posts", TRUE, <<"validateId", "getPostById">>),
       Route("POST", "posts", FALSE, <<"authenticate", "validatePost", "createPost">>),
       Route("PUT", "posts", TRUE,
             <<"authenticate", "validateId", "validateUpdatePost", "updatePost">>),
       Route("DELETE", "posts", TRUE, <<"authenticate", "validateId", "deletePost">>) >>

ProfileImageRoutes ==
    << Route("GET", "profile-images", FALSE, <<"validatePagination", "getAllProfileImages">>),
       Route("GET", "profile-images", TRUE, <<"validateId", "getProfileImageById">>),
       Route("POST", "profile-images", FALSE,
             <<"authenticate", "validateProfileImage", "createProfileImage">>),
       Route("PUT", "profile-images", TRUE,
             <<"authenticate", "validateId", "validateUpdateProfileImage",
               "updateProfileImage">>),
       Route("DELETE", "profile-images", TRUE,
             <<"authenticate", "validateId", "deleteProfileImage">>) >>

\* the routes of the /api router in the order of their registration
ApiRoutes == UserRoutes \o CategoryRoutes \o PostRoutes \o ProfileImageRoutes

Validators ==
    {"validateId", "validatePagination", "validateCategory", "validateUpdateCategory",
     "validatePost", "validateUpdatePost", "validateProfileImage",
     "validateUpdateProfileImage"}

Creators == {"createCategory", "createPost", "createProfileImage"}

ApiPath(resource, id) == [resource |-> resource, id |-> id]

RouteMatches(route, method, path) ==
    /\ route.method = method
    /\ route.resource = path.resource
    /\ route.hasId = (path.id # "")

\* the first registered route that matches (0: none, the request falls through
\* to the 404 handler)
Dispatch(routes, method, path) ==
    LET hits == {i \in DOMAIN routes : RouteMatches(routes[i], method, path)}
    IN IF hits = {} THEN 0 ELSE CHOOSE i \in hits : \A j \in hits : i <= j

\* what a chain did with a request: the stages that ran, in order, and the answer
Outcome(ran, status, error, message, user, nexts, branch) ==
    [ran |-> ran, status |-> status, error |-> error, message |-> message,
     user |-> user, nexts |-> nexts, branch |-> branch]

\* the handler's answer: the rows of the resource tables are not part of the
\* state, so what the handler finds there (outcome) is an input
HandlerOutcome(handler, outcome, user) ==
    IF outcome = "error"
    THEN Outcome(<<handler>>, 500, "Internal Server Error", "", user, 0, "handler")
    ELSE IF outcome = "missing"
    THEN Outcome(<<handler>>, 404, "Not Found", "", user, 0, "handler")
    ELSE Outcome(<<handler>>, IF handler \in Creators THEN 201 ELSE 200, "", "", user, 0,
                 "handler")

\* the stages of a chain from the i-th on: each stage answers or calls next()
\* (invalid: the validators that find errors in the request)
RECURSIVE RunChain(_, _, _, _, _, _, _)
RunChain(chain, i, hdr, reqUser, invalid, outcome, dbDown) ==
    LET stage == chain[i]
        g == authenticate(hdr, reqUser, dbDown)
        rest == RunChain(chain, i + 1, hdr, IF stage = "authenticate" THEN g.user ELSE reqUser,
                         invalid, outcome, dbDown)
    IN IF stage = "authenticate"
       THEN IF g.nexts = 0
            THEN Outcome(<<stage>>, g.status, g.error, g.message, g.user, 0, g.branch)
            ELSE [rest EXCEPT !.ran = <<stage>> \o @, !.nexts = @ + 1]
       ELSE IF stage \in Validators
       THEN IF stage \in invalid
            THEN Outcome(<<stage>>, 400, "Validation Error", "Invalid input data", reqUser, 0,
                         "validation")
            ELSE [rest EXCEPT !.ran = <<stage>> \o @]
       ELSE HandlerOutcome(stage, outcome, reqUser)

ApiResp(req, o) ==
    [op |-> "api", req |-> req, status |-> o.status, error |-> o.error,
     message |-> o.message, user |-> o.user, token |-> NoToken, nexts |-> o.nexts,
     branch |-> o.branch, ran |-> o.ran]

\* a request to /api: passport.session(), the router, the 404 handler
ApiRequest(method, path, hdr, cookie, invalid, outcome, dbDown) ==
    LET ps == passportSession(cookie, dbDown)
        req == [method |-> method, path |-> path, hdr |-> hdr, dbDown |-> dbDown,
                sessionUser |-> ps.user, invalid |-> invalid]
        i == Dispatch(ApiRoutes, method, path)
    IN /\ Quiet
       /\ IF ps.err
          THEN /\ res' = ApiResp(req, Outcome(<< >>, 500, "Internal Server Error",
                                              "Something went wrong!", NoUser, 0,
                                              "error_handler"))
               /\ UNCHANGED sessions
          ELSE /\ sessions' = ps.sessions
               /\ res' = IF i = 0
                         THEN ApiResp(req, Outcome(<< >>, 404, "Not Found", "Route not found",
                                                   ps.user, 0, "no_route"))
                         ELSE ApiResp(req, RunChain(ApiRoutes[i].chain, 1, hdr, ps.user,
                                                    invalid, outcome, dbDown))
       /\ UNCHANGED <<users, nextId, nextSid, now, issued, reg, linked>>

\* ------------------------------------------------ category filter router
\* a route pattern is a sequence of segments: a literal, or a parameter (:name)
Lit(text) == [kind |-> "literal", text |-> text]

Param(name) == [kind |-> "param", text |-> name]

FilterRoute(pattern, handler) == [method |-> "GET", pattern |-> pattern, handler |-> handler]

\* the routes of the category filter router in the order of their registration
FilterRoutes ==
    << FilterRoute(<<Param("name")>>, "filterCategoriesByName"),
       FilterRoute(<<Lit("pagination")>>, "filterCategoriesWithPagination"),
       FilterRoute(<<Lit("date-range")>>, "filterCategoriesByDateRange"),
       FilterRoute(<<Lit("with-posts")>>, "filterCategoriesWithPosts"),
       FilterRoute(<<Lit("without-posts")>>, "filterCategoriesWithoutPosts") >>

\* a pattern matches a path segment by segment: a literal matches itself, a
\* parameter matches any one non-empty segment
PatternMatches(pattern, path) ==
    /\ Len(pattern) = Len(path)
    /\ \A i \in DOMAIN pattern :
          IF pattern[i].kind = "param" THEN path[i] # "" ELSE pattern[i].text = path[i]

\* the first registered route that matches (0: none)
FilterDispatch(routes, method, path) ==
    LET hits == {i \in DOMAIN routes : /\ routes[i].method = method
                                       /\ PatternMatches(routes[i].pattern, path)}
    IN IF hits = {} THEN 0 ELSE CHOOSE i \in hits : \A j \in hits : i <= j

\* req.params of a matched route: the segments its parameters took
Params(pattern, path) ==
    LET at == {i \in DOMAIN pattern : pattern[i].kind = "param"}
    IN [n \in {pattern[i].text : i \in at} |->
            path[CHOOSE i \in at : pattern[i].text = n]]

\* parseInt of a query value: the number a decimal string denotes, NaN otherwise
ParseInt(s) ==
    IF s = "0" THEN [nan |-> FALSE, value |-> 0]
    ELSE IF s = "1" THEN [nan |-> FALSE, value |-> 1]
    ELSE IF s = "10" THEN [nan |-> FALSE, value |-> 10]
    ELSE [nan |-> TRUE, value |-> 0]

\* new Date(s): an Invalid Date unless the string is a date
NewDate(s) == [valid |-> s = "2024-01-01", text |-> IF s = "2024-01-01" THEN s ELSE ""]

\* a query parameter, or the default the destructuring gives when it is absent
QueryOr(query, key, default) == IF key \in DOMAIN query THEN query[key] ELSE default

\* the arguments each handler passes to prisma.category.findMany
FindManyArgs(handler, params, query) ==
    IF handler = "filterCategoriesByName"
    THEN [where |-> [name |-> [contains |-> params.name, mode |-> "insensitive"]],
          orderBy |-> "name asc"]
    ELSE IF handler = "filterCategoriesWithPagination"
    THEN [skip |-> ParseInt(QueryOr(query, "skip", "0")),
          take |-> ParseInt(QueryOr(query, "take", "10")),
          orderBy |-> "name asc"]
    ELSE IF handler = "filterCategoriesByDateRange"
    THEN [where |-> [createdAt |->
                        [k \in {g \in {"gte"} : QueryOr(query, "startDate", "") # ""} |->
                             NewDate(query.startDate)]],
          orderBy |-> "createdAt desc"]
    ELSE IF handler = "filterCategoriesWithPosts"
    THEN [where |-> [posts |-> "some"], orderBy |-> "name asc"]
    ELSE [where |-> [posts |-> "none"], orderBy |-> "name asc"]

FilterResp(req, status, handler, find) ==
    [op |-> "filter", req |-> req, status |-> status,
     error |-> IF status = 200 THEN "" ELSE "error", message |-> "", user |-> NoUser,
     token |-> NoToken, nexts |-> 0, branch |-> IF handler = "" THEN "no_route" ELSE "handler",
     handler |-> handler, find |-> find]

\* a request to the category filter router: the handler of the first matching
\* route answers with the rows its query finds, or 500 when the query throws;
\* no handler calls next(), so a later route never sees the request
FilterRequest(method, path, query, dbDown) ==
    LET req == [method |-> method, path |-> path, query |-> query, dbDown |-> dbDown]
        i == FilterDispatch(FilterRoutes, method, path)
        route == FilterRoutes[i]
    IN /\ Quiet
       /\ res' = IF i = 0
                 THEN FilterResp(req, 404, "", [none |-> TRUE])
                 ELSE FilterResp(req, IF dbDown THEN 500 ELSE 200, route.handler,
                                 FindManyArgs(route.handler, Params(route.pattern, path), query))
       /\ UNCHANGED <<users, nextId, sessions, nextSid, now, issued, reg, linked>>

\* what a client can put in the Authorization header
TokenInputs ==
    issued \cup {Tok(t.userId, t.exp, "bad") : t \in issued}

Headers ==
    {NoHeader, Hdr("Bearer", Tok(0, 0, "empty")), Hdr("Basic", Garbage)}
        \cup {Hdr("Bearer", t) : t \in TokenInputs}

Init ==
    /\ users = {}
    /\ nextId = 1
    /\ sessions = [s \in 1..MaxSids |-> 0]
    /\ nextSid = 1
    /\ now = 0
    /\ issued = {}
    /\ reg = [p \in Procs |-> [pc |-> "idle"]]
    /\ res = NoResp
    /\ linked = {}

\* the client receives the response
Deliver ==
    /\ res # NoResp
    /\ res' = NoResp
    /\ UNCHANGED <<users, nextId, sessions, nextSid, now, issued, reg, linked>>

Tick ==
    /\ now < MaxTime
    /\ Quiet
    /\ now' = now + 1
    /\ UNCHANGED <<users, nextId, sessions, nextSid, issued, reg, res, linked>>

\* the registrations the gate scenarios start from
GateBodies ==
    {b \in RegisterBodies :
        /\ b.password = Pw1
        /\ <<b.username.base, b.email.local>> \in {<<"u1", "a">>, <<"u2", "b">>}}

GateRegisterLookup == \E body \in GateBodies : RegisterLookup(1, body, FALSE)

GateRegisterCreate == RegisterCreate(1, FALSE)

GateLogin ==
    \E body \in GateBodies, cookie \in Cookies :
        Login(body.email, body.password, cookie, FALSE, FALSE)

GateDeleteAccount == \E hdr \in Headers, cookie \in Cookies : DeleteAccount(hdr, cookie, FALSE)

AuthenticateRequest ==
    \E hdr \in Headers, cookie \in Cookies, dbDown \in BOOLEAN : Authenticate(hdr, cookie, dbDown)

OptionalAuthRequest ==
    \E hdr \in Headers, cookie \in Cookies, dbDown \in BOOLEAN : OptionalAuth(hdr, cookie, dbDown)

\* requests to routes behind the mandatory gate
NextGate ==
    \/ Deliver
    \/ Tick
    \/ GateRegisterLookup
    \/ GateRegisterCreate
    \/ GateLogin
    \/ GateDeleteAccount
    \/ AuthenticateRequest

SpecGate == Init /\ [][NextGate]_vars

\* requests to routes behind the optional gate
NextOptional ==
    \/ Deliver
    \/ Tick
    \/ GateRegisterLookup
    \/ GateRegisterCreate
    \/ GateLogin
    \/ GateDeleteAccount
    \/ OptionalAuthRequest

SpecOptional == Init /\ [][NextOptional]_vars

\* concurrent registrations
RegisterLookupStep ==
    \E p \in Procs, body \in RegisterBodies, dbDown \in BOOLEAN : RegisterLookup(p, body, dbDown)

RegisterCreateStep == \E p \in Procs, dbDown \in BOOLEAN : RegisterCreate(p, dbDown)

NextRegister ==
    \/ Deliver
    \/ RegisterLookupStep
    \/ RegisterCreateStep

SpecRegister == Init /\ [][NextRegister]_vars

\* registration followed by logins
LoginRegisterLookup == \E body \in RegisterBodies : RegisterLookup(1, body, FALSE)

LoginRequest ==
    \E email \in Emails, password \in Passwords, cookie \in Cookies, dbDown \in BOOLEAN :
        \E storeFail \in BOOLEAN : Login(email, password, cookie, dbDown, storeFail)

GoogleRequest ==
    \E profile \in GoogleProfiles, cookie \in Cookies, dbDown \in BOOLEAN :
        GoogleCallback(profile, "rt", cookie, dbDown, FALSE)

NextLogin ==
    \/ Deliver
    \/ LoginRegisterLookup
    \/ GateRegisterCreate
    \/ LoginRequest
    \/ GoogleRequest

SpecLogin == Init /\ [][NextLogin]_vars

\* the profile updates a client sends: a new first name, a new username, a new email
UpdateBodies ==
    {[username |-> NoName, firstName |-> "Bea", lastName |-> "", email |-> NoEmail, age |-> 0],
     [username |-> Name("u2", -1), firstName |-> "", lastName |-> "", email |-> NoEmail,
      age |-> 0],
     [username |-> NoName, firstName |-> "", lastName |-> "", email |-> Mail("b", "x.com"),
      age |-> 41]}

\* the life of a session and of the tokens issued along with it
SessionLogin ==
    \E body \in GateBodies, cookie \in Cookies, storeFail \in BOOLEAN :
        Login(body.email, body.password, cookie, FALSE, storeFail)

SessionLogout ==
    \E cookie \in Cookies, fail \in {"none", "logout", "destroy"} : Logout(cookie, FALSE, fail)

SessionChangePassword ==
    \E hdr \in Headers, cookie \in Cookies : ChangePassword(hdr, cookie, Pw1, Pw2, FALSE)

SessionUpdateProfile ==
    \E hdr \in Headers, cookie \in Cookies :
        \E body \in {b \in UpdateBodies : b.firstName # ""} :
            UpdateProfile(hdr, cookie, body, FALSE)

\* a Google login that reports the email of the first registration
SessionGoogle ==
    \E cookie \in Cookies :
        \E profile \in {g \in GoogleProfiles : g.email.local = "a" /\ g.givenName = ""} :
            GoogleCallback(profile, "rt", cookie, FALSE, FALSE)

SessionRegisterLookup ==
    \E body \in {b \in GateBodies : b.email.local = "a"} : RegisterLookup(1, body, FALSE)

NextSession ==
    \/ Deliver
    \/ Tick
    \/ SessionRegisterLookup
    \/ GateRegisterCreate
    \/ SessionLogin
    \/ SessionLogout
    \/ SessionChangePassword
    \/ SessionUpdateProfile
    \/ SessionGoogle
    \/ AuthenticateRequest

SpecSession == Init /\ [][NextSession]_vars

\* identity resolution: local registrations, Google and GitHub logins from a
\* fresh browser, profile updates and password changes
OAuthGoogle ==
    \E dbDown \in BOOLEAN, storeFail \in BOOLEAN :
        \E profile \in {g \in GoogleProfiles : g.givenName = "" <=> g.email.local = "a"} :
            GoogleCallback(profile, "rt", 0, dbDown, storeFail)

OAuthGitHub ==
    \E profile \in GitHubProfiles, dbDown \in BOOLEAN, storeFail \in BOOLEAN :
        GitHubCallback(profile, "rt", 0, dbDown, storeFail)

OAuthUpdateProfile ==
    \E hdr \in Headers, cookie \in Cookies :
        \E body \in {b \in UpdateBodies : b.firstName = ""} :
            UpdateProfile(hdr, cookie, body, FALSE)

NextOAuth ==
    \/ Deliver
    \/ GateRegisterLookup
    \/ GateRegisterCreate
    \/ OAuthGoogle
    \/ OAuthGitHub
    \/ OAuthUpdateProfile
    \/ SessionChangePassword

SpecOAuth == Init /\ [][NextOAuth]_vars

\* the end of an account: one registration, its logins, its deletion and the
\* requests that come after
NextDelete ==
    \/ Deliver
    \/ Tick
    \/ SessionRegisterLookup
    \/ GateRegisterCreate
    \/ GateLogin
    \/ GateDeleteAccount
    \/ AuthenticateRequest

SpecDelete == Init /\ [][NextDelete]_vars

\* every endpoint that answers with a user object, for local accounts and for
\* accounts the Google and GitHub logins create or link
ViewsGitHub ==
    \E cookie \in Cookies :
        \E profile \in {h \in GitHubProfiles : h.email # NoEmail} :
            GitHubCallback(profile, "rt", cookie, FALSE, FALSE)

ViewsGetProfile ==
    \E hdr \in Headers, cookie \in Cookies, fail \in BOOLEAN :
        GetProfile(hdr, cookie, FALSE, fail)

ViewsGetAllUsers ==
    \E hdr \in Headers, cookie \in Cookies, page \in {1, 2}, limit \in {1, 10} :
        \E fail \in BOOLEAN : GetAllUsers(hdr, cookie, page, limit, FALSE, fail)

ViewsGetUserById ==
    \E hdr \in Headers, cookie \in Cookies, id \in 1..MaxIds, fail \in BOOLEAN :
        GetUserById(hdr, cookie, id, FALSE, fail)

NextViews ==
    \/ Deliver
    \/ GateRegisterLookup
    \/ GateRegisterCreate
    \/ GateLogin
    \/ SessionGoogle
    \/ ViewsGitHub
    \/ SessionUpdateProfile
    \/ ViewsGetProfile
    \/ ViewsGetAllUsers
    \/ ViewsGetUserById

SpecViews == Init /\ [][NextViews]_vars

\* one account, its tokens, and the updates of its profile
FreshUpdateProfile ==
    \E hdr \in Headers, cookie \in Cookies, body \in UpdateBodies :
        UpdateProfile(hdr, cookie, body, FALSE)

NextFresh ==
    \/ Deliver
    \/ Tick
    \/ SessionRegisterLookup
    \/ GateRegisterCreate
    \/ GateLogin
    \/ FreshUpdateProfile
    \/ AuthenticateRequest

SpecFresh == Init /\ [][NextFresh]_vars

\* requests to the /api router, with and without credentials
Methods == {"GET", "POST", "PUT", "DELETE"}

Resources == {"users", "categories", "posts", "profile-images"}

ApiRequestStep ==
    \E method \in Methods, resource \in Resources, id \in {"", "id1"} :
        \E hdr \in Headers, cookie \in Cookies, dbDown \in BOOLEAN :
            \E invalid \in {{}, Validators}, outcome \in {"ok", "missing"} :
                ApiRequest(method, ApiPath(resource, id), hdr, cookie, invalid, outcome,
                           dbDown)

NextApi ==
    \/ Deliver
    \/ SessionRegisterLookup
    \/ GateRegisterCreate
    \/ GateLogin
    \/ ApiRequestStep

SpecApi == Init /\ [][NextApi]_vars

\* the life of a password: one account, registered with a short or a long
\* password, its password changes and its logins
PasswordInputs == {Pw1, Pw2} \cup LongPasswords

PasswordRegisterLookup ==
    \E body \in {b \in [username : Usernames, firstName : {"Ann"}, lastName : {"Lee"},
                         email : Emails, age : {30}, password : {Pw1} \cup LongPasswords] :
                     b.username.base = "u1" /\ b.email.local = "a"} :
        RegisterLookup(1, body, FALSE)

PasswordChange ==
    \E hdr \in Headers, currentPassword \in PasswordInputs, newPassword \in PasswordInputs :
        ChangePassword(hdr, 0, currentPassword, newPassword, FALSE)

PasswordLogin ==
    \E email \in Emails, password \in PasswordInputs, storeFail \in BOOLEAN :
        Login(email, password, 0, FALSE, storeFail)

NextPassword ==
    \/ Deliver
    \/ PasswordRegisterLookup
    \/ GateRegisterCreate
    \/ PasswordChange
    \/ PasswordLogin

SpecPassword == Init /\ [][NextPassword]_vars

\* profile updates among two local accounts, one of which Google may link
NextProfile ==
    \/ Deliver
    \/ GateRegisterLookup
    \/ GateRegisterCreate
    \/ SessionGoogle
    \/ FreshUpdateProfile

SpecProfile == Init /\ [][NextProfile]_vars

\* requests to the category filter router
FilterPaths ==
    {<<"pagination">>, <<"date-range">>, <<"with-posts">>, <<"without-posts">>, <<"tech">>,
     << >>, <<"name", "tech">>}

\* req.query: any of skip, take and startDate, each with a number or a date
Queries ==
    UNION {[D -> {"1", "10", "2024-01-01"}] : D \in SUBSET {"skip", "take", "startDate"}}

FilterRequestStep ==
    \E method \in {"GET", "POST"}, path \in FilterPaths, query \in Queries,
       dbDown \in BOOLEAN :
        FilterRequest(method, path, query, dbDown)

NextFilter ==
    \/ Deliver
    \/ FilterRequestStep

SpecFilter == Init /\ [][NextFilter]_vars

LogoutRequest ==
    \E cookie \in Cookies, dbDown \in BOOLEAN, fail \in {"none", "logout", "destroy"} :
        Logout(cookie, dbDown, fail)

DeleteAccountRequest ==
    \E hdr \in Headers, cookie \in Cookies, dbDown \in BOOLEAN : DeleteAccount(hdr, cookie, dbDown)

GitHubRequest ==
    \E profile \in GitHubProfiles, cookie \in Cookies, dbDown \in BOOLEAN :
        \E storeFail \in BOOLEAN : GitHubCallback(profile, "rt", cookie, dbDown, storeFail)

UpdateProfileRequest ==
    \E hdr \in Headers, cookie \in Cookies, body \in UpdateBodies, dbDown \in BOOLEAN :
        UpdateProfile(hdr, cookie, body, dbDown)

ChangePasswordRequest ==
    \E hdr \in Headers, cookie \in Cookies, dbDown \in BOOLEAN :
        \E currentPassword \in Passwords, newPassword \in Passwords :
            ChangePassword(hdr, cookie, currentPassword, newPassword, dbDown)

Next ==
    \/ Deliver
    \/ Tick
    \/ RegisterLookupStep
    \/ RegisterCreateStep
    \/ LoginRequest
    \/ LogoutRequest
    \/ GoogleRequest
    \/ GitHubRequest
    \/ AuthenticateRequest
    \/ OptionalAuthRequest
    \/ UpdateProfileRequest
    \/ ChangePasswordRequest
    \/ DeleteAccountRequest

Spec == Init /\ [][Next]_vars

\* ================================================================ claims
\* the request carried `Authorization: Bearer <non-empty credential>`
BearerPresent(hdr) == hdr.scheme = "Bearer" /\ hdr.cred.sig \notin {"none", "empty"}

\* the request got as far as the gate (passport.session() did not fail)
ReachedGate(r) == r.branch # "error_handler"

\* the states req.user can be in when a gate is entered
SessionStates == {NoUser} \cup {SelectView(u) : u \in users}

\* the bearer credential is a signed token that has not expired at time t
ValidAt(token, t) == token.sig = "ok" /\ t < token.exp

C2_TokenAuthoritative ==
    (res.op = "authenticate" /\ ReachedGate(res) /\ res.req.at = now) =>
        /\ BearerPresent(res.req.hdr) =>
              /\ \A su \in SessionStates :
                    LET g == authenticate(res.req.hdr, su, res.req.dbDown)
                    IN /\ g.status = res.status
                       /\ g.message = res.message
                       /\ g.nexts = res.nexts
                       /\ (g.nexts = 1 => g.user = res.user)
              /\ ~ValidAt(res.req.hdr.cred, res.req.at) => (res.status = 401 /\ res.nexts = 0)
              /\ res.nexts = 1 => res.user.id = res.req.hdr.cred.userId
        /\ res.branch \in {"session", "no_session"} => ~BearerPresent(res.req.hdr)

\* a token of one user presented together with the live session of another
C2_Witness ==
    /\ res.op = "authenticate"
    /\ BearerPresent(res.req.hdr)
    /\ res.req.sessionUser # NoUser
    /\ res.req.sessionUser.id # res.req.hdr.cred.userId
    /\ res.nexts = 1

\* C3: on the token path of authenticate an expired token gets 401 "Token
\* expired", a token with a bad signature or structure 401 "Invalid token", and
\* a valid unexpired token of a user that the store does not hold 401 "User not
\* found"; in each case the gate leaves req.user alone and the handler does not run.
C3_RejectionReasons ==
    (res.op = "authenticate" /\ ReachedGate(res) /\ BearerPresent(res.req.hdr)) =>
        LET token == res.req.hdr.cred
            rejected(message) ==
                /\ res.status = 401
                /\ res.message = message
                /\ res.nexts = 0
                /\ res.user = res.req.sessionUser
        IN /\ (token.sig = "ok" /\ res.req.at >= token.exp) => rejected("Token expired")
           /\ token.sig # "ok" => rejected("Invalid token")
           /\ (ValidAt(token, res.req.at) /\ ~res.req.dbDown /\ res.req.at = now
                 /\ ~\E u \in users : u.id = token.userId) => rejected("User not found")

\* a forged copy of a token that has expired
C3_Witness ==
    /\ res.op = "authenticate"
    /\ res.req.hdr.cred.sig = "bad"
    /\ res.req.hdr.cred.exp > 0
    /\ res.req.at >= res.req.hdr.cred.exp
    /\ res.message = "Invalid token"

\* C4: the identity optionalAuth leaves on the request is the token's user when
\* a bearer token is present, valid and its user exists; none when a bearer
\* token is present and its resolution fails, whatever the session; the session
\* user when no bearer token is present; none otherwise.
C4_OptionalIdentity ==
    (res.op = "optionalAuth" /\ ReachedGate(res) /\ ~res.req.dbDown /\ res.req.at = now) =>
        LET token == res.req.hdr.cred
            resolves == ValidAt(token, res.req.at) /\ \E u \in users : u.id = token.userId
        IN IF BearerPresent(res.req.hdr)
           THEN IF resolves
                THEN res.user = SelectView(findUniqueById(users, token.userId))
                ELSE res.user = NoUser
           ELSE res.user = res.req.sessionUser

\* C5: optionalAuth never rejects: whatever the token, the session and the
\* health of the store, it calls next exactly once and sends no response.
C5_OptionalNeverRejects ==
    (res.op = "optionalAuth" /\ ReachedGate(res)) =>
        /\ res.nexts = 1
        /\ res.status = 0

\* a store failure during the lookup of a valid token's user is swallowed
C5_Witness ==
    /\ res.op = "optionalAuth"
    /\ res.req.dbDown
    /\ ValidAt(res.req.hdr.cred, res.req.at)
    /\ res.branch = "swallowed"
    /\ res.nexts = 1

\* C6: once register has answered 201 for (username, email, password), a login
\* with that email and password succeeds, returns the id the registration
\* returned, and the user it returns has no password field.
C6_RegisterThenLogin ==
    (res.op = "register" /\ res.status = 201) =>
        LET v == LocalVerify(res.req.email, res.req.password, FALSE)
            r == LoginResponse(res.req, v, generateToken(v.user.id, now))
        IN /\ r.status = 200
           /\ r.user.id = res.user.id
           /\ "password" \notin DOMAIN r.user

\* a login that succeeded for a record a registration created
C6_Witness ==
    /\ res.op = "login"
    /\ res.status = 200
    /\ "password" \notin DOMAIN res.user
    /\ \E u \in users : /\ u.id = res.user.id
                        /\ u.provider = "local"
                        /\ u.email = res.req.email
                        /\ bcryptCompare(res.req.password, u.password)

\* C7: a registration whose email is the email of an existing record is
\* answered 400 with "User with this email already exists", whatever the
\* submitted username is, and creates no record.
C7_DuplicateEmail ==
    (res.op = "register" /\ res.branch = "exists" /\ EmailTaken(users, res.req.email)) =>
        /\ res.status = 400
        /\ res.message = "User with this email already exists"

\* C8: however the lookups and creates of concurrent registrations interleave,
\* no two records share an email or a username, and a registration that loses
\* to another one's record is answered with a 4xx status.
C8_ConcurrentRegister ==
    /\ \A u1, u2 \in users :
          (u1.email = u2.email \/ u1.username = u2.username) => u1 = u2
    /\ (res.op = "register" /\ res.branch = "unique_violation") => res.status \in 400..499

\* C9: the response to a login with an email that has no record equals, in
\* status, error and message, the response to a login with a wrong password
\* for any local account of the store.
C9_NoEnumeration ==
    (res.op = "login" /\ res.branch = "no_user") =>
        \A u \in users, wrong \in Passwords :
            (u.password # NoPassword /\ ~bcryptCompare(wrong, u.password)) =>
                LET v == LocalVerify(u.email, wrong, FALSE)
                    r == LoginResponse(res.req, v, NoToken)
                IN /\ v.branch = "bad_password"
                   /\ r.status = res.status
                   /\ r.error = res.error
                   /\ r.message = res.message
                   /\ r.status = 401

\* a login with an unknown email while the store holds a local account
C9_Witness ==
    /\ res.op = "login"
    /\ res.branch = "no_user"
    /\ \E u \in users : u.password # NoPassword

\* C10: a login that fails for an unknown email, a record without a password
\* or a wrong password is answered 401, carries no token, and the step creates
\* no session and issues no token; for a record without a password the message
\* is "Please use OAuth to login" and no password comparison is made.
C10_FailedLogin ==
    [][(res'.op = "login" /\ res'.branch \in {"no_user", "no_password", "bad_password"}) =>
          /\ res'.status = 401
          /\ res'.token = NoToken
          /\ nextSid' = nextSid
          /\ issued' = issued
          /\ \A s \in 1..MaxSids : sessions'[s] # 0 => sessions'[s] = sessions[s]
          /\ (res'.branch = "no_password") =>
                /\ res'.message = "Please use OAuth to login"
                /\ ~res'.req.compared
          /\ LET u == findUniqueByEmail(users, res'.req.email)
             IN /\ (u = NoUser) <=> (res'.branch = "no_user")
                /\ (u # NoUser /\ u.password = NoPassword) <=> (res'.branch = "no_password")
      ]_vars

\* a password login against an account that only Google created
C10_Witness ==
    /\ res.op = "login"
    /\ res.branch = "no_password"
    /\ res.status = 401
    /\ \E u \in users : u.email = res.req.email /\ u.provider = "google"

\* the instants at which a token can be presented
Instants == 0..(MaxTime + ExpiresIn)

\* C11: a token issued for userId at time t0 validates to userId at every time
\* from t0 up to, but not including, t0 + ExpiresIn, and fails with
\* TokenExpiredError at every time from t0 + ExpiresIn on; the mandatory gate
\* never answers "Token expired" for it inside the window and always does after.
C11_TokenWindow ==
    /\ \A token \in issued :
          LET t0 == token.exp - ExpiresIn
          IN /\ token = generateToken(token.userId, t0)
             /\ t0 <= now
             /\ \A t \in Instants :
                   t >= t0 =>
                      LET decoded == verifyToken(generateToken(token.userId, t0), t)
                      IN IF t < t0 + ExpiresIn
                         THEN decoded.ok /\ decoded.userId = token.userId
                         ELSE ~decoded.ok /\ decoded.name = "TokenExpiredError"
    /\ (res.op = "authenticate" /\ ReachedGate(res) /\ res.req.hdr.cred.sig = "ok") =>
          LET token == res.req.hdr.cred
          IN IF res.req.at < token.exp
             THEN res.branch \in {"token", "user_not_found", "error"}
             ELSE res.branch = "expired" /\ res.message = "Token expired"

\* a token accepted at a time after its issuance and before its expiry
C11_Witness ==
    /\ res.op = "authenticate"
    /\ res.branch = "token"
    /\ res.req.hdr.cred.sig = "ok"
    /\ res.req.at > res.req.hdr.cred.exp - ExpiresIn
    /\ res.user.id = res.req.hdr.cred.userId

\* C12: a token issued for user u is accepted by the mandatory gate at every
\* moment before its expiry at which u's record exists and the store answers,
\* with u's record as identity, in every state that logouts, password changes,
\* profile updates and Google logins lead to and whatever session comes with
\* the request; the gate's verdict depends on the token, the clock and the
\* User table alone.
C12_RevokedOnlyByExpiry ==
    /\ \A token \in issued, su \in SessionStates :
          (now < token.exp /\ \E u \in users : u.id = token.userId) =>
              LET g == authenticate(Hdr("Bearer", token), su, FALSE)
              IN /\ g.nexts = 1
                 /\ g.status = 0
                 /\ g.user = SelectView(findUniqueById(users, token.userId))
    /\ (res.op = "authenticate" /\ ReachedGate(res) /\ ~res.req.dbDown
          /\ res.req.hdr.scheme = "Bearer" /\ ValidAt(res.req.hdr.cred, res.req.at)
          /\ \E u \in users : u.id = res.req.hdr.cred.userId) =>
              /\ res.nexts = 1
              /\ res.user.id = res.req.hdr.cred.userId

\* the token of the only user there ever was, accepted although that user has
\* since changed the password (no login with the old one can have issued it
\* afterwards), changed the first name and lost every session to a logout
C12_Witness ==
    /\ res.op = "authenticate"
    /\ res.branch = "token"
    /\ nextId = 2
    /\ nextSid > 1
    /\ \A sid \in 1..MaxSids : sessions[sid] = 0
    /\ \E u \in users : /\ u.id = res.user.id
                        /\ u.provider = "local"
                        /\ u.password = bcryptHash(Pw2, saltRounds)
                        /\ u.firstName = "Bea"

\* the ids of the records that deleteAccount has removed
Deleted == {i \in 1..(nextId - 1) : ~\E u \in users : u.id = i}

\* C13: once deleteAccount has removed the record of user u, the mandatory
\* gate authenticates no request as u: not with any session cookie alone (the
\* one of the deleting request or another session that still holds u's id),
\* and not with any token ever issued for u, whatever cookie comes with it.
C13_DeletedNeverAuthenticated ==
    \A i \in Deleted :
        /\ res.nexts = 1 => res.user.id # i
        /\ \A cookie \in Cookies :
              LET reqUser == passportSession(cookie, FALSE).user
                  AsDeleted(hdr) ==
                      LET g == authenticate(hdr, reqUser, FALSE)
                      IN g.nexts = 1 /\ g.user.id = i
              IN /\ ~AsDeleted(NoHeader)
                 /\ \A t0 \in 0..now : ~AsDeleted(Hdr("Bearer", generateToken(i, t0)))

\* deleteAccount has just succeeded for a user who still has a session in the
\* session store and holds a token that has not expired
C13_Witness ==
    /\ res.op = "deleteAccount"
    /\ res.status = 200
    /\ \E i \in Deleted :
          /\ \E sid \in 1..MaxSids : sessions[sid] = i
          /\ \E token \in issued : token.userId = i /\ now < token.exp

\* C14: right after a login has answered 200 the cookie of the session it
\* created, sent without a bearer token, passes the mandatory gate as the user
\* of the login; after logout has answered "Logout successful" the cookie the
\* logout came with does not pass the gate; and logout answers success only if
\* neither req.logout nor session.destroy failed.
C14_SessionLifecycle ==
    /\ (res.op = "login" /\ res.status = 200) =>
          LET ps == passportSession(nextSid - 1, FALSE)
              g == authenticate(NoHeader, ps.user, FALSE)
          IN /\ ~ps.err
             /\ g.nexts = 1
             /\ g.branch = "session"
             /\ g.user.id = res.user.id
             /\ res.branch = "ok"
    /\ (res.op = "logout" /\ res.message = "Logout successful") =>
          LET ps == passportSession(res.req.cookie, FALSE)
              g == authenticate(NoHeader, ps.user, FALSE)
          IN /\ res.status = 200
             /\ res.req.fail = "none"
             /\ res.req.cookie # 0 => sessions[res.req.cookie] = 0
             /\ g.nexts = 0
             /\ g.status = 401
    /\ (res.op = "logout" /\ ReachedGate(res) /\ res.req.fail # "none") =>
          /\ res.status = 500
          /\ res.message \in {"Failed to logout", "Failed to destroy session"}

\* a logout that succeeded with the cookie of a session a login had created
C14_Witness ==
    /\ res.op = "logout"
    /\ res.status = 200
    /\ res.message = "Logout successful"
    /\ res.req.cookie # 0
    /\ res.req.cookie < nextSid
    /\ users # {}

\* C15: in every reachable state every record either has a password hash or
\* a provider other than local, and never both or neither: local records have
\* a password, google and github records have none.
C15_PasswordXorProvider ==
    \A u \in users : (u.password # NoPassword) <=> (u.provider = "local")

\* C16: once the provider of a record is google or github, no step changes
\* the provider of that record.
C16_ProviderImmutable ==
    [][\A u \in users, v \in users' :
          (u.id = v.id /\ u.provider \in {"google", "github"}) => v.provider = u.provider
      ]_vars

\* C17: no step sets the provider of an existing record to local: a record
\* whose provider is google or github before a step does not have provider
\* local after it, whichever of register, the Google and GitHub logins, profile
\* update and password change the step is.
C17_NeverBackToLocal ==
    [][\A u \in users, v \in users' :
          (u.id = v.id /\ u.provider # "local") => v.provider # "local"
      ]_vars

\* a profile update that succeeded on a record whose provider is google or github
C17_Witness ==
    /\ res.op = "updateProfile"
    /\ res.status = 200
    /\ res.user.provider \in {"google", "github"}
    /\ \E u \in users : u.id = res.user.id /\ u.provider = res.user.provider

\* C18: after a Google or GitHub resolution has returned a user for a profile,
\* a second resolution of the same profile returns the same user id, whichever
\* matching record the store hands to it, and creates no record: it finds a
\* record, that record has the id returned before, and its update succeeds.
C18_OAuthIdempotent ==
    /\ (res.op = "google" /\ res.status = 200) =>
          /\ GoogleMatches(users, res.req.profile) # {}
          /\ \A user \in GoogleMatches(users, res.req.profile) :
                /\ user.id = res.user.id
                /\ ~ProviderIdTaken(users, "google", res.req.profile.id, user.id)
    /\ (res.op = "github" /\ res.status = 200) =>
          /\ GitHubMatches(users, res.req.profile) # {}
          /\ \A user \in GitHubMatches(users, res.req.profile) :
                /\ user.id = res.user.id
                /\ ~ProviderIdTaken(users, "github", res.req.profile.id, user.id)

\* the step is an OAuth callback of the given provider during which neither
\* the store nor the session store failed
Resolved(op) == res'.op = op /\ ~res'.req.dbDown /\ ~res'.req.storeFail

\* C19: a Google login whose profile reports the email of an existing local
\* account returns that account's id, creates no record, and leaves that
\* account with provider google and the profile's id as providerId.
C19_LinkByEmail ==
    [][Resolved("google") =>
          \A x \in users :
              (x.provider = "local" /\ x.email = res'.req.profile.email) =>
                  /\ res'.status = 200
                  /\ res'.user.id = x.id
                  /\ {v.id : v \in users'} = {u.id : u \in users}
                  /\ \E v \in users' : /\ v.id = x.id
                                        /\ v.provider = "google"
                                        /\ v.providerId = res'.req.profile.id
      ]_vars

\* C20: a Google or GitHub resolution always returns a user; when no record
\* matches the profile it adds exactly one record, with the provider of the
\* login, age 18 and a synthesized username, and returns that record, whatever
\* usernames the store holds and whatever name fields the profile lacks.
C20_OAuthAlwaysReturns ==
    [][\A op \in {"google", "github"} :
          Resolved(op) =>
              /\ res'.status = 200
              /\ res'.user.id # 0
              /\ LET profile == res'.req.profile
                     matches == IF op = "google" THEN GoogleMatches(users, profile)
                                ELSE GitHubMatches(users, profile)
                 IN matches = {} =>
                       \E v \in users' :
                           /\ users' = users \cup {v}
                           /\ v \notin users
                           /\ v.id = res'.user.id
                           /\ v.provider = op
                           /\ v.age = 18
                           /\ v.username # NoName
      ]_vars

\* C21: a GitHub login whose profile carries no email creates, when it creates
\* a record, one whose email is '<github username>@github.local', a value
\* computed from the profile alone; and when an earlier login of the same
\* GitHub id without email has returned a record that is still in the store,
\* the login returns that record and creates no record.
C21_GitHubPlaceholder ==
    [][(Resolved("github") /\ res'.req.profile.email = NoEmail) =>
          LET profile == res'.req.profile
          IN /\ \A v \in users' \ users :
                    (\A u \in users : u.id # v.id) =>
                        v.email = Mail(profile.username, "github.local")
             /\ \A l \in linked :
                    (/\ l.provider = "github"
                     /\ l.providerId = profile.id
                     /\ ~l.withEmail
                     /\ \E u \in users : u.id = l.id) =>
                        /\ res'.status = 200
                        /\ res'.user.id = l.id
                        /\ {v.id : v \in users'} = {u.id : u \in users}
      ]_vars

\* the user objects in the body of a response
UsersIn(r) ==
    IF r.op = "getAllUsers" /\ r.status = 200
    THEN {r.user.data[i] : i \in DOMAIN r.user.data}
    ELSE {r.user}

\* the endpoints that answer with a user object
UserEndpoints ==
    {"register", "login", "google", "github", "getProfile", "updateProfile",
     "getAllUsers", "getUserById"}

\* C22: no response of register, login, the Google and GitHub callbacks,
\* getProfile, updateProfile, getAllUsers and getUserById carries a user object
\* with a password field, whether the record is local, was created by an OAuth
\* login or is a local record an OAuth login has linked; and a successful
\* answer of each of them but getAllUsers carries the user it is about.
C22_NoPasswordInResponses ==
    /\ \A u \in UsersIn(res) : "password" \notin DOMAIN u
    /\ (res.op \in UserEndpoints \ {"getAllUsers"} /\ res.status \in {200, 201}) =>
          \E x \in users : x.id = res.user.id

\* a GitHub or Google callback that answers with a local record it has just
\* linked, whose password hash is still in the store
C22_Witness ==
    /\ res.op \in {"google", "github"}
    /\ res.status = 200
    /\ "password" \notin DOMAIN res.user
    /\ \E x \in users : x.id = res.user.id /\ x.password # NoPassword

\* the record the gate attached to the request of the step, as the store held
\* it before the step
Caller(r) ==
    findUniqueById(users, authenticate(r.req.gate.hdr, r.req.gate.sessionUser, FALSE).user.id)

\* C23: changePassword for a caller whose record has provider google or
\* github, a formerly local record that an OAuth login has linked included,
\* answers 400 "Cannot change password for OAuth users" and leaves the stored
\* password as it was; it answers 200 only for a record with provider local.
C23_ChangePasswordLocalOnly ==
    [][(res'.op = "changePassword" /\ res'.nexts = 1) =>
          LET user == Caller(res')
          IN /\ user.provider \in {"google", "github"} =>
                   /\ res'.status = 400
                   /\ res'.message = "Cannot change password for OAuth users"
                   /\ \A v \in users' : v.id = user.id => v.password = user.password
             /\ res'.status = 200 => user.provider = "local"
      ]_vars

\* C24: on the token path the identity attached is the current view of the
\* record with the token's id: right after a profile update of user u every
\* unexpired token of u, all of them issued before the update, is answered
\* with the username, first name, last name, email and age the update wrote;
\* and tokens for u issued at any two times that are both unexpired yield the
\* same identity, whatever session comes with them.
C24_FreshIdentity ==
    /\ (res.op = "updateProfile" /\ res.status = 200) =>
          \A token \in issued, su \in SessionStates :
              (token.userId = res.user.id /\ ValidAt(token, now)) =>
                  LET g == authenticate(Hdr("Bearer", token), su, FALSE)
                      body == res.req.body
                  IN /\ g.nexts = 1
                     /\ g.user = res.user
                     /\ body.username # NoName => g.user.username = body.username
                     /\ body.firstName # "" => g.user.firstName = body.firstName
                     /\ body.lastName # "" => g.user.lastName = body.lastName
                     /\ body.email # NoEmail => g.user.email = body.email
                     /\ body.age # 0 => g.user.age = body.age
    /\ \A u \in users, t1 \in 0..now, t2 \in 0..now, su \in SessionStates :
          (ValidAt(generateToken(u.id, t1), now) /\ ValidAt(generateToken(u.id, t2), now)) =>
              LET g1 == authenticate(Hdr("Bearer", generateToken(u.id, t1)), su, FALSE)
                  g2 == authenticate(Hdr("Bearer", generateToken(u.id, t2)), NoUser, FALSE)
              IN /\ g1.nexts = 1
                 /\ g1.user = g2.user
                 /\ g1.user = SelectView(u)
    /\ (res.op = "authenticate" /\ res.branch = "token") =>
          res.user = SelectView(findUniqueById(users, res.req.hdr.cred.userId))

\* a token that the registration issued (there has been no login), presented
\* after updates have changed the username, the first name, the email and the
\* age of its user, at a later time than it was issued
C24_Witness ==
    /\ res.op = "authenticate"
    /\ res.branch = "token"
    /\ nextSid = 1
    /\ res.req.at > res.req.hdr.cred.exp - ExpiresIn
    /\ res.user.username = Name("u2", -1)
    /\ res.user.firstName = "Bea"
    /\ res.user.email = Mail("b", "x.com")
    /\ res.user.age = 41

\* the route is one the claim calls protected: POST, PUT, DELETE, or GET /api/users
Protected(r) == r.req.method \in {"POST", "PUT", "DELETE"} \/ r.req.path.resource = "users"

\* the stages of a sequence
Stages(ran) == {ran[i] : i \in DOMAIN ran}

\* C25: a request that the /api router dispatches to a POST, PUT or DELETE
\* route or to one of the two GET /api/users routes runs authenticate first;
\* when authenticate rejects it, the gate's answer is the response and neither
\* a validator nor the handler has run; a validator or handler has run only
\* if authenticate accepted. A GET on categories, posts or profile-images
\* never runs authenticate: its validators and, for valid input, its handler
\* run whatever credentials the request carries.
C25_ApiGateFirst ==
    (res.op = "api" /\ res.branch \notin {"error_handler", "no_route"}) =>
        LET g == authenticate(res.req.hdr, res.req.sessionUser, res.req.dbDown)
            ran == res.ran
        IN IF Protected(res)
           THEN /\ ran[1] = "authenticate"
                /\ g.nexts = 0 =>
                      /\ ran = <<"authenticate">>
                      /\ res.status = g.status
                      /\ res.message = g.message
                      /\ res.status \in {401, 500}
                /\ Len(ran) > 1 => g.nexts = 1
                /\ \A i \in 2..Len(ran) : ran[i] # "authenticate"
           ELSE /\ "authenticate" \notin Stages(ran)
                /\ res.nexts = 0
                /\ ran[1] \in Validators
                /\ res.req.invalid = {} => ran[Len(ran)] \notin Validators
                /\ res.status \notin {401}

\* a DELETE with a forged token and an id that is not a UUID: rejected by the
\* gate before the validator could object
C25_Witness ==
    /\ res.op = "api"
    /\ res.req.method = "DELETE"
    /\ res.req.hdr.cred.sig = "bad"
    /\ res.req.invalid # {}
    /\ res.status = 401
    /\ res.ran = <<"authenticate">>

\* C26: changePassword with a wrong current password answers 400 and leaves
\* every stored hash as it was; and once changePassword(current, new) has
\* succeeded with new different from current, a login of the same account with
\* the old password is refused with "Invalid email or password" and a login
\* with the new password succeeds for the same user id.
C26_PasswordChange ==
    [][\A email \in Emails, current \in PasswordInputs, new \in PasswordInputs :
          (/\ res'.op = "changePassword"
           /\ res'.nexts = 1
           /\ res'.req.currentPassword = current
           /\ res'.req.newPassword = new
           /\ Caller(res').email = email) =>
              LET user == Caller(res')
              IN /\ (user.password # NoPassword
                       /\ ~bcryptCompare(current, user.password)) =>
                       /\ res'.status = 400
                       /\ users' = users
                 /\ (res'.status = 200 /\ new # current) =>
                       /\ LocalVerify(email, current, FALSE)'.user = NoUser
                       /\ LocalVerify(email, current, FALSE)'.message
                              = "Invalid email or password"
                       /\ LocalVerify(email, new, FALSE)'.user # NoUser
                       /\ LocalVerify(email, new, FALSE)'.user.id = user.id
      ]_vars

C28_ReturningIdentity ==
    [][\A op \in {"google", "github"} :
          Resolved(op) =>
              /\ \A a \in users :
                    (a.provider = op /\ a.providerId = res'.req.profile.id) =>
                        /\ res'.status = 200
                        /\ res'.user.id = a.id
              /\ \A v1, v2 \in users' :
                    (v1.providerId # "" /\ v1.provider = v2.provider
                       /\ v1.providerId = v2.providerId) => v1 = v2
      ]_vars

\* C29: the user object in a successful answer of login and of the Google and
\* GitHub callbacks has exactly the fields of the view that register and
\* getProfile return for that record; it has no refreshToken and no providerId.
C29_NoProviderSecrets ==
    (res.op \in {"login", "google", "github"} /\ res.status = 200) =>
        /\ "refreshToken" \notin DOMAIN res.user
        /\ "providerId" \notin DOMAIN res.user
        /\ \A u \in users : u.id = res.user.id => res.user = SelectView(u)

\* C30: each category filter route reaches the handler its comment names: a
\* GET of /pagination is answered by filterCategoriesWithPagination, of
\* /date-range by filterCategoriesByDateRange, of /with-posts by
\* filterCategoriesWithPosts, of /without-posts by filterCategoriesWithoutPosts,
\* and filterCategoriesByName answers only the other single-segment paths.
C30_FilterRoutes ==
    (res.op = "filter" /\ res.req.method = "GET") =>
        /\ res.req.path = <<"pagination">> => res.handler = "filterCategoriesWithPagination"
        /\ res.req.path = <<"date-range">> => res.handler = "filterCategoriesByDateRange"
        /\ res.req.path = <<"with-posts">> => res.handler = "filterCategoriesWithPosts"
        /\ res.req.path = <<"without-posts">> =>
              res.handler = "filterCategoriesWithoutPosts"
        /\ res.handler = "filterCategoriesByName" =>
              /\ Len(res.req.path) = 1
              /\ res.req.path[1] \notin
                    {"pagination", "date-range", "with-posts", "without-posts"}
====
